---- MODULE Spec2Model ----
(***************************************************************************)
(* A model of ipcalc.py: one invocation of main() in range mode, split     *)
(* (VLSM) mode or standard mode with an optional second netmask.           *)
(*                                                                         *)
(* Addresses are kept as ipaddress keeps them in `packed`: big-endian      *)
(* sequences of bytes, 4 for IPv4 and 16 for IPv6, so that 32-bit and      *)
(* 128-bit values are computed exactly.  Prefix lengths, host counts and   *)
(* block sizes are integers; address counts, which reach 2^32, are packed   *)
(* values one byte wider than an address.                                  *)
(*                                                                         *)
(* Standard mode is modelled for IPv4, with an explicit prefix or with the  *)
(* classful default; the IPv6 branch of lines 398-412 is not part of the   *)
(* model.                                                                  *)
(***************************************************************************)
EXTENDS Integers, Sequences, FiniteSets, TLC

(***************************************************************************)
(* Bounds of the model.                                                    *)
(***************************************************************************)
\* longest list of host counts given to -s
MaxReqs == 3
\* range mode: start and end lie within MaxOffset of a window's base
MaxOffset == 19
\* standard mode: a narrowing second netmask adds at most MaxNarrow bits
MaxNarrow == 3

(***************************************************************************)
(* Arithmetic on packed addresses (ipaddress: int(self), _ip, packed).     *)
(***************************************************************************)
Min(a, b) == IF a <= b THEN a ELSE b

Max(a, b) == IF a >= b THEN a ELSE b

\* ipaddress: IPv4Address._max_prefixlen = 32, IPv6Address._max_prefixlen = 128
max_prefixlen(version) == IF version = 4 THEN 32 ELSE 128

IPv4(a, b, c, d) == [version |-> 4, packed |-> <<a, b, c, d>>]

IPv6(words) ==
    [version |-> 6,
     packed |-> [i \in 1..16 |->
                   IF i % 2 = 1 THEN words[(i + 1) \div 2] \div 256
                                ELSE words[i \div 2] % 256]]

\* the number of leading bits of byte i of an address that a prefix covers
KeepBits(i, prefix) == Max(0, Min(8, prefix - 8 * (i - 1)))

\* int(address) & int(netmask): the host bits cleared
AndNetmask(packed, prefix) ==
    [i \in 1..Len(packed) |-> packed[i] - (packed[i] % 2^(8 - KeepBits(i, prefix)))]

\* int(address) | int(hostmask): the host bits set
OrHostmask(packed, prefix) ==
    [i \in 1..Len(packed) |->
        packed[i] - (packed[i] % 2^(8 - KeepBits(i, prefix)))
                  + 2^(8 - KeepBits(i, prefix)) - 1]

\* a < b for two packed values of one length
RECURSIVE LessFrom(_, _, _)
LessFrom(a, b, i) ==
    IF i > Len(a) THEN FALSE
    ELSE IF a[i] # b[i] THEN a[i] < b[i]
    ELSE LessFrom(a, b, i + 1)

Less(a, b) == LessFrom(a, b, 1)

\* value + 256^(Len - i) * n for a byte n, the carry rippling to the left;
\* ok is FALSE when the sum does not fit the width
RECURSIVE AddAt(_, _, _)
AddAt(packed, i, n) ==
    IF n = 0 THEN [ok |-> TRUE, packed |-> packed]
    ELSE IF i < 1 THEN [ok |-> FALSE, packed |-> packed]
    ELSE IF packed[i] + n < 256
         THEN [ok |-> TRUE, packed |-> [packed EXCEPT ![i] = packed[i] + n]]
         ELSE AddAt([packed EXCEPT ![i] = packed[i] + n - 256], i - 1, 1)

\* value + 2^k
AddPow2(packed, k) == AddAt(packed, Len(packed) - (k \div 8), 2^(k % 8))

\* value - 1, for a value > 0
RECURSIVE SubOneAt(_, _)
SubOneAt(packed, i) ==
    IF packed[i] > 0 THEN [packed EXCEPT ![i] = packed[i] - 1]
    ELSE SubOneAt([packed EXCEPT ![i] = 255], i - 1)

SubOne(packed) == SubOneAt(packed, Len(packed))

\* a - b for a >= b, byte by byte from the right with a borrow
RECURSIVE SubFrom(_, _, _, _)
SubFrom(a, b, i, borrow) ==
    IF i < 1 THEN a
    ELSE LET d == a[i] - b[i] - borrow
         IN  IF d >= 0 THEN SubFrom([a EXCEPT ![i] = d], b, i - 1, 0)
                       ELSE SubFrom([a EXCEPT ![i] = d + 256], b, i - 1, 1)

Sub(a, b) == SubFrom(a, b, Len(a), 0)

\* int.bit_length() of a byte
ByteBitLength(n) ==
    IF n = 0 THEN 0 ELSE CHOOSE k \in 1..8 : 2^(k - 1) <= n /\ n < 2^k

\* int.bit_length() of a packed value
RECURSIVE BitLengthFrom(_, _)
BitLengthFrom(packed, i) ==
    IF i > Len(packed) THEN 0
    ELSE IF packed[i] # 0 THEN 8 * (Len(packed) - i) + ByteBitLength(packed[i])
    ELSE BitLengthFrom(packed, i + 1)

bit_length(packed) == BitLengthFrom(packed, 1)

\* the number of trailing zero bits of a byte > 0
ByteZeroBits(n) == CHOOSE k \in 0..7 : n % 2^k = 0 /\ n % 2^(k + 1) # 0

\* ipaddress._count_righthand_zero_bits(number, bits)
RECURSIVE ZeroBitsFrom(_, _)
ZeroBitsFrom(packed, i) ==
    IF i < 1 THEN 8 * Len(packed)
    ELSE IF packed[i] # 0 THEN 8 * (Len(packed) - i) + ByteZeroBits(packed[i])
    ELSE ZeroBitsFrom(packed, i - 1)

count_righthand_zero_bits(packed) == ZeroBitsFrom(packed, Len(packed))

(***************************************************************************)
(* Values of the ipaddress library.                                        *)
(***************************************************************************)
\* ipaddress.ip_network((address, prefix), strict=False): host bits discarded
ip_network(address, prefix) ==
    [network_address |-> [version |-> address.version,
                          packed |-> AndNetmask(address.packed, prefix)],
     prefixlen |-> prefix]

\* strict construction raises ValueError("... has host bits set")
has_host_bits(packed, prefix) == AndNetmask(packed, prefix) # packed

\* IPv4Network.broadcast_address
broadcast_address(network) ==
    [version |-> network.network_address.version,
     packed |-> OrHostmask(network.network_address.packed, network.prefixlen)]

\* a natural number n < 2^31 as a packed value of len bytes
ToBytes(n, len) ==
    [i \in 1..len |-> IF len - i > 3 THEN 0 ELSE (n \div 256^(len - i)) % 256]

\* IPv4Network.num_addresses = int(broadcast) - int(network) + 1, a packed
\* value one byte wider than an address (a /0 holds 2^32 addresses)
num_addresses(network) ==
    AddPow2(<<0>> \o Sub(broadcast_address(network).packed,
                         network.network_address.packed), 0).packed

\* math.ceil(math.log2(n)) for n >= 1
CeilLog2(n) == CHOOSE k \in 0..31 : (k = 31 \/ 2^k >= n) /\ (k = 0 \/ 2^(k - 1) < n)

\* int(math.log2(n)) for n >= 1
IntLog2(n) == CHOOSE k \in 0..30 : 2^k <= n /\ (k = 30 \/ n < 2^(k + 1))

\* the [None] entries of allocated_subnets
None == [network_address |-> [version |-> 0, packed |-> <<>>], prefixlen |-> -1]

(***************************************************************************)
(* The command lines of the model.                                         *)
(***************************************************************************)
AtOffset(address, o) ==
    [version |-> address.version,
     packed |-> AddAt(address.packed, Len(address.packed), o).packed]

\* bases of the windows the range endpoints are drawn from: one holding the
\* worked example, one crossing a byte boundary, the bottom and the top of
\* the IPv4 space, and an IPv6 window crossing a 16-bit group
Windows ==
    { IPv4(10, 0, 0, 0), IPv4(10, 0, 0, 250), IPv4(0, 0, 0, 0),
      IPv4(255, 255, 255, 255 - MaxOffset),
      IPv6(<<8193, 3512, 0, 0, 0, 0, 0, 65530>>) }

\* ADDRESS1 - ADDRESS2
RangeArgs ==
    { [mode |-> "range", start |-> AtOffset(w, i), end |-> AtOffset(w, j)] :
        w \in Windows, i \in 0..MaxOffset, j \in 0..MaxOffset }
    \cup
    { [mode |-> "range", start |-> IPv4(10, 0, 0, 1), end |-> IPv6(<<0, 0, 0, 0, 0, 0, 0, 1>>)],
      [mode |-> "range", start |-> IPv6(<<0, 0, 0, 0, 0, 0, 0, 1>>), end |-> IPv4(10, 0, 0, 1)],
      [mode |-> "range", start |-> IPv4(0, 0, 0, 0), end |-> IPv4(255, 255, 255, 255)] }

\* the parents of split mode: the worked example, the top of the IPv4 space,
\* an address with host bits set, and a /30
SplitParents ==
    { <<IPv4(192, 0, 2, 0), 24>>, <<IPv4(255, 255, 255, 0), 24>>,
      <<IPv4(10, 1, 2, 77), 26>>, <<IPv4(10, 0, 0, 8), 30>> }

\* the host counts of -s (argparse type=int accepts zero and negatives)
HostCounts == {-2, -1, 0, 2, 10, 20, 50, 126}

\* ADDRESS/PREFIX -s SIZE...
SplitArgs ==
    { [mode |-> "split", address |-> n[1], prefixlen |-> n[2], split |-> sizes] :
        n \in SplitParents,
        sizes \in UNION { [1..len -> HostCounts] : len \in 1..MaxReqs } }

\* the networks of standard mode
NetInputs ==
    { <<IPv4(192, 168, 0, 77), 30>>, <<IPv4(192, 0, 2, 0), 24>>,
      <<IPv4(10, 0, 0, 1), 31>>, <<IPv4(255, 255, 255, 255), 32>>,
      <<IPv4(172, 16, 5, 4), 12>>, <<IPv4(10, 200, 0, 0), 0>>,
      <<IPv4(255, 255, 255, 250), 29>> }

\* ADDRESS/PREFIX [PREFIX2]: netmask2 is <<>> when no second netmask is given
SecondNetmasks(prefix) ==
    {<<>>} \cup { <<k>> : k \in { j \in -1..33 : j \in 0..32 => j - prefix <= MaxNarrow } }

NetArgs ==
    UNION { { [mode |-> "net", address |-> n[1], prefixlen |-> n[2], netmask2 |-> m] :
                m \in SecondNetmasks(n[2]) } : n \in NetInputs }

\* ADDRESS alone, with or without --class: every first octet, and the tails
\* of the documented examples
ClassfulArgs ==
    { [mode |-> "classful", address |-> IPv4(o, t[1], t[2], t[3]),
       print_class |-> c, netmask2 |-> <<>>] :
        o \in 0..255, t \in {<<0, 0, 1>>, <<16, 0, 1>>, <<168, 1, 1>>}, c \in BOOLEAN }

Args == RangeArgs \cup SplitArgs \cup NetArgs \cup ClassfulArgs

(***************************************************************************)
(* State.                                                                  *)
(***************************************************************************)
VARIABLES
    args,              \* the parsed command line (argparse, ip_address)
    pc,                \* the position of main()
    out,               \* what was printed on stdout
    err,               \* what was printed on stderr
    exit_code,         \* the exit status of the process, -1 while it runs
    first_int,         \* summarize_address_range: first_int
    last_int,          \* summarize_address_range: last_int
    needed_blocks,     \* handle_split_network: needed_blocks
    current_address,   \* handle_split_network: current_address
    allocated_subnets, \* handle_split_network: allocated_subnets
    subnets,           \* main: subnets, the list of the narrowing transition
    orig               \* history: the network a second run's input was a subnet of

vars == <<args, pc, out, err, exit_code, first_int, last_int,
          needed_blocks, current_address, allocated_subnets, subnets, orig>>

range_vars == <<first_int, last_int>>

split_vars == <<needed_blocks, current_address, allocated_subnets>>

Init ==
    /\ args \in Args
    /\ pc = "main"
    /\ out = <<>>
    /\ err = <<>>
    /\ exit_code = -1
    /\ first_int = <<>>
    /\ last_int = <<>>
    /\ needed_blocks = <<>>
    /\ current_address = None.network_address
    /\ allocated_subnets = <<>>
    /\ subnets = <<>>
    /\ orig = None

\* sys.exit(code), or the interpreter ending on an uncaught exception
Exit(code) == pc' = "exit" /\ exit_code' = code

\* an exception no except clause of main() catches: a traceback, status 1
Traceback(exc) == [msg |-> "Traceback (most recent call last)", error |-> exc]

\* a & b for two bytes
RECURSIVE BitAnd(_, _)
BitAnd(a, b) ==
    IF a = 0 \/ b = 0 THEN 0
    ELSE (a % 2) * (b % 2) + 2 * BitAnd(a \div 2, b \div 2)

\* get_class taking only the octets below 64 for class A
get_class_two_bits(address) ==
    LET first_octet == address.packed[1]
    IN  IF BitAnd(first_octet, 192) = 0 THEN "A"
        ELSE IF BitAnd(first_octet, 192) = 128 THEN "B"
        ELSE IF BitAnd(first_octet, 224) = 192 THEN "C"
        ELSE IF BitAnd(first_octet, 240) = 224 THEN "D"
        ELSE "E"

\* get_class, lines 84-95: the masks are 0b10000000, 0b11000000, 0b11100000
\* and 0b11110000
get_class(address) ==
    LET first_octet == address.packed[1]
    IN  IF BitAnd(first_octet, 128) = 0 THEN "A"
        ELSE IF BitAnd(first_octet, 192) = 128 THEN "B"
        ELSE IF BitAnd(first_octet, 224) = 192 THEN "C"
        ELSE IF BitAnd(first_octet, 240) = 224 THEN "D"
        ELSE "E"

\* main, lines 433-441: the prefix appended when no MASK1 is given
classful_prefix(address) ==
    LET addr_class == get_class(address)
    IN  IF addr_class = "A" THEN 8
        ELSE IF addr_class = "B" THEN 16
        ELSE 24

\* main: initial_network = ipaddress.ip_network(network_str, strict=False)
initial_network ==
    IF args.mode = "classful"
    THEN ip_network(args.address, classful_prefix(args.address))
    ELSE ip_network(args.address, args.prefixlen)

(***************************************************************************)
(* Range mode, main() lines 380-391.                                       *)
(***************************************************************************)
\* (last_int - first_int + 1).bit_length()
SpanBitLength(first, last) ==
    LET span == AddPow2(<<0>> \o Sub(last, first), 0).packed
    IN  bit_length(span)

\* SummaryBits without the alignment of first
SummaryBitsUnaligned(first, last) == SpanBitLength(first, last) - 1

\* SummaryBits with the bit length itself, not the bit length less one
SummaryBitsOverrun(first, last) ==
    Min(count_righthand_zero_bits(first), SpanBitLength(first, last))

\* summarize_address_range: the nbits of the block that starts at first
SummaryBits(first, last) ==
    Min(count_righthand_zero_bits(first), SpanBitLength(first, last) - 1)

\* the header is printed, then the generator's checks run at its first next()
Deaggregate ==
    /\ pc = "main"
    /\ args.mode = "range"
    /\ out' = Append(out, [text |-> "Deaggregating range",
                           start |-> args.start, end |-> args.end])
    /\ IF args.start.version # args.end.version
       THEN \* TypeError is not in the except clause of line 389
            /\ err' = Append(err, Traceback("TypeError: not of the same version"))
            /\ Exit(1)
            /\ UNCHANGED range_vars
       ELSE IF Less(args.end.packed, args.start.packed)
       THEN /\ err' = Append(err, [msg |-> "Invalid range specified",
                      error |-> "last IP address must be greater than first"])
            /\ Exit(1)
            /\ UNCHANGED range_vars
       ELSE /\ first_int' = args.start.packed
            /\ last_int' = args.end.packed
            /\ pc' = "summarize"
            /\ UNCHANGED <<err, exit_code>>
    /\ UNCHANGED <<args, split_vars, subnets, orig>>

\* one turn of the generator's loop and of the for loop that prints it
SummarizeStep ==
    /\ pc = "summarize"
    /\ LET nbits == SummaryBits(first_int, last_int)
           prefix == 8 * Len(first_int) - nbits
           next == AddPow2(first_int, nbits)
       IN  IF has_host_bits(first_int, prefix)
           THEN \* ValueError from the network constructor, caught at line 389
                /\ err' = Append(err, [msg |-> "Invalid range specified",
                                       error |-> "has host bits set"])
                /\ Exit(1)
                /\ UNCHANGED <<out, first_int>>
           ELSE /\ out' = Append(out,
                      [text |-> "cidr",
                       network |-> [network_address |->
                                       [version |-> args.start.version,
                                        packed |-> first_int],
                                    prefixlen |-> prefix]])
                /\ UNCHANGED err
                /\ IF ~next.ok \/ Less(last_int, next.packed)
                   THEN Exit(0) /\ UNCHANGED first_int
                   ELSE first_int' = next.packed /\ UNCHANGED <<pc, exit_code>>
    /\ UNCHANGED <<args, last_int, split_vars, subnets, orig>>

(***************************************************************************)
(* print_network_info, lines 196-222.                                      *)
(***************************************************************************)
\* hosts_count taking 2 off for every prefix but 32
hosts_count_no_p2p(network) ==
    LET num == num_addresses(network)
    IN  IF network.prefixlen < 32 THEN SubOne(SubOne(num)) ELSE num

\* lines 210-214: the Hosts/Net count
hosts_count(network) ==
    LET num == num_addresses(network)
    IN  IF network.prefixlen < 31
        THEN (IF Less(num, ToBytes(2, Len(num)))    \* hosts_count - 2 < 0
              THEN ToBytes(0, Len(num))
              ELSE SubOne(SubOne(num)))
        ELSE num

\* lines 201-222: the lines of the host range and the Hosts/Net count
print_network_info(network) ==
    LET net == network.network_address
        bcast == broadcast_address(network)
        line(label, packed) ==
            [label |-> label, addr |-> [version |-> net.version, packed |-> packed]]
    IN  [text |-> "network_info",
         network |-> network,
         lines |->
            <<line("Network", net.packed)>> \o
            (IF network.prefixlen < 31
             THEN <<line("HostMin", AddPow2(net.packed, 0).packed),
                    line("HostMax", SubOne(bcast.packed)),
                    line("Broadcast", bcast.packed)>>
             ELSE IF network.prefixlen = 31
             THEN <<line("HostMin", net.packed), line("HostMax", bcast.packed)>>
             ELSE <<>>),
         hosts_count |-> hosts_count(network)]

(***************************************************************************)
(* Split mode, handle_split_network, lines 298-334.                        *)
(***************************************************************************)
\* NeededBlock rounding the power down instead of up
NeededBlockFloor(size, i) ==
    [original_size |-> size, block_size |-> 2^IntLog2(size + 2), original_index |-> i]

\* lines 304-310: the block of one requested size (size + 2 >= 1)
NeededBlock(size, i) ==
    [original_size |-> size, block_size |-> 2^CeilLog2(size + 2), original_index |-> i]

\* list.sort(key=block_size, reverse=True): stable, so equal block sizes keep
\* their original order
RECURSIVE SortBlocks(_)
SortBlocks(blocks) ==
    IF blocks = <<>> THEN <<>>
    ELSE LET n == Len(blocks)
             rest == SortBlocks(SubSeq(blocks, 1, n - 1))
             b == blocks[n]
             \* b goes behind every block at least as large
             k == Cardinality({j \in 1..(n - 1) : rest[j].block_size >= b.block_size})
         IN  SubSeq(rest, 1, k) \o <<b>> \o SubSeq(rest, k + 1, n - 1)

\* sum(b['block_size'] for b in needed_blocks)
RECURSIVE SumBlocks(_)
SumBlocks(blocks) ==
    IF blocks = <<>> THEN 0 ELSE blocks[1].block_size + SumBlocks(Tail(blocks))

total_needed == SumBlocks(needed_blocks)

\* lines 303-313; math.log2 raises ValueError for size + 2 <= 0, uncaught
ComputeBlocks ==
    /\ pc = "main"
    /\ args.mode = "split"
    /\ IF \E i \in 1..Len(args.split) : args.split[i] + 2 <= 0
       THEN /\ err' = Append(err, Traceback("ValueError: math domain error"))
            /\ Exit(1)
            /\ UNCHANGED needed_blocks
       ELSE /\ needed_blocks' =
                 SortBlocks([i \in 1..Len(args.split) |-> NeededBlock(args.split[i], i)])
            /\ pc' = "capacity"
            /\ UNCHANGED <<err, exit_code>>
    /\ UNCHANGED <<args, out, range_vars, current_address, allocated_subnets, subnets, orig>>

\* lines 315-322; after the error return, main calls sys.exit(0) at line 457
CheckCapacity ==
    /\ pc = "capacity"
    /\ LET num == num_addresses(initial_network)
       IN  IF Less(num, ToBytes(total_needed, Len(num)))
           THEN /\ err' = Append(err, [msg |-> "Error: The requested subnet sizes exceed the capacity",
                                       total_needed |-> total_needed,
                                       num_addresses |-> num])
                /\ Exit(0)
                /\ UNCHANGED <<current_address, allocated_subnets>>
           ELSE /\ current_address' = initial_network.network_address
                /\ allocated_subnets' = [i \in 1..Len(args.split) |-> None]
                /\ pc' = "allocate"
                /\ UNCHANGED <<err, exit_code>>
    /\ UNCHANGED <<args, out, range_vars, needed_blocks, subnets, orig>>

\* the blocks of needed_blocks already placed
Placed == Cardinality({i \in 1..Len(allocated_subnets) : allocated_subnets[i] # None})

\* lines 324-328, one turn of the loop; both the strict network constructor
\* and IPv4Address.__add__ raise a ValueError nothing catches
Allocate ==
    /\ pc = "allocate"
    /\ Placed < Len(needed_blocks)
    /\ LET block == needed_blocks[Placed + 1]
           prefix == 32 - IntLog2(block.block_size)
           next == AddPow2(current_address.packed, IntLog2(block.block_size))
       IN  IF has_host_bits(current_address.packed, prefix)
           THEN /\ err' = Append(err, Traceback("ValueError: has host bits set"))
                /\ Exit(1)
                /\ UNCHANGED <<current_address, allocated_subnets>>
           ELSE /\ allocated_subnets' =
                     [allocated_subnets EXCEPT ![block.original_index] =
                         [network_address |-> current_address, prefixlen |-> prefix]]
                /\ IF next.ok
                   THEN /\ current_address' = [current_address EXCEPT !.packed = next.packed]
                        /\ UNCHANGED <<pc, exit_code, err>>
                   ELSE /\ err' = Append(err, Traceback("AddressValueError: (>= 2**32) is not permitted"))
                        /\ Exit(1)
                        /\ UNCHANGED current_address
    /\ UNCHANGED <<args, out, range_vars, needed_blocks, subnets, orig>>

\* lines 330-334 and sys.exit(0) at line 457
PrintSubnets ==
    /\ pc = "allocate"
    /\ Placed = Len(needed_blocks)
    /\ out' = out \o
          <<[text |-> "Splitting", network |-> initial_network, sizes |-> args.split]>> \o
          [i \in 1..Len(allocated_subnets) |->
              [text |-> "Requested size",
               index |-> i,
               size |-> args.split[i],
               block |-> num_addresses(allocated_subnets[i]),
               info |-> print_network_info(allocated_subnets[i])]]
    /\ Exit(0)
    /\ UNCHANGED <<args, err, range_vars, split_vars, subnets, orig>>

(***************************************************************************)
(* Standard mode, main() lines 459-501.                                    *)
(***************************************************************************)
\* lines 450-452: --class prints the class of the address and exits
PrintClass ==
    /\ pc = "main"
    /\ args.mode = "classful"
    /\ args.print_class
    /\ out' = Append(out, [text |-> "Class", class |-> get_class(args.address)])
    /\ Exit(0)
    /\ UNCHANGED <<args, err, range_vars, split_vars, subnets, orig>>

\* lines 463-475
PrintNetwork ==
    /\ pc = "main"
    /\ args.mode = "net" \/ (args.mode = "classful" /\ ~args.print_class)
    /\ out' = out \o <<[text |-> "Address", address |-> args.address,
                        network |-> initial_network],
                       print_network_info(initial_network)>>
    /\ pc' = "netmask2"
    /\ UNCHANGED <<args, err, exit_code, range_vars, split_vars, subnets, orig>>

\* IPv4Network.subnets(new_prefix): range(start, end, step) over the network
RECURSIVE SubnetRange(_, _, _)
SubnetRange(cur, last, new_prefix) ==
    LET next == AddPow2(cur.packed, 8 * Len(cur.packed) - new_prefix)
    IN  <<[network_address |-> cur, prefixlen |-> new_prefix]>> \o
        (IF ~next.ok \/ Less(last.packed, next.packed)
         THEN <<>>
         ELSE SubnetRange([cur EXCEPT !.packed = next.packed], last, new_prefix))

Subnets(network, new_prefix) ==
    SubnetRange(network.network_address, broadcast_address(network), new_prefix)

\* Supernet keeping the subnet's base under the shorter prefix
SupernetKeepBase(network, new_prefix) ==
    [network_address |-> network.network_address, prefixlen |-> new_prefix]

\* IPv4Network.supernet(new_prefix):
\* (int(network_address) & (int(netmask) << prefixlen_diff), new_prefix)
Supernet(network, new_prefix) == ip_network(network.network_address, new_prefix)

\* line 488: the listing stops after 1000 subnets
SubnetLimit == 1000

\* lines 480-482: int(netmask2_arg) is not in 0..32
InvalidSecondNetmask ==
    /\ pc = "netmask2"
    /\ args.netmask2 # <<>>
    /\ ~(0 <= args.netmask2[1] /\ args.netmask2[1] <= 32)
    /\ err' = Append(err, [msg |-> "Invalid second netmask",
                           error |-> "Prefix must be between 0 and 32."])
    /\ Exit(1)
    /\ UNCHANGED <<args, out, range_vars, split_vars, subnets, orig>>

\* lines 484-492, then the end of main
SubnetTransition ==
    /\ pc = "netmask2"
    /\ args.netmask2 # <<>>
    /\ 0 <= args.netmask2[1] /\ args.netmask2[1] <= 32
    /\ args.netmask2[1] > initial_network.prefixlen
    /\ subnets' = Subnets(initial_network, args.netmask2[1])
    /\ out' = out \o
          <<[text |-> "Subnets", network |-> initial_network, new_prefix |-> args.netmask2[1]]>> \o
          [i \in 1..Min(Len(subnets'), SubnetLimit) |-> print_network_info(subnets'[i])] \o
          (IF Len(subnets') > SubnetLimit
           THEN <<[text |-> "... stopped at 1000 subnets ..."]>> ELSE <<>>)
    /\ Exit(0)
    /\ UNCHANGED <<args, err, range_vars, split_vars, orig>>

\* lines 494-497, then the end of main
SupernetTransition ==
    /\ pc = "netmask2"
    /\ args.netmask2 # <<>>
    /\ 0 <= args.netmask2[1] /\ args.netmask2[1] <= 32
    /\ args.netmask2[1] < initial_network.prefixlen
    /\ out' = out \o
          <<[text |-> "Supernet", network |-> initial_network, new_prefix |-> args.netmask2[1]],
            print_network_info(Supernet(initial_network, args.netmask2[1]))>>
    /\ Exit(0)
    /\ UNCHANGED <<args, err, range_vars, split_vars, subnets, orig>>

\* no second netmask, or one equal to the prefix: neither branch of lines
\* 484-497 runs and main ends
NoTransition ==
    /\ pc = "netmask2"
    /\ args.netmask2 # <<>> => args.netmask2[1] = initial_network.prefixlen
    /\ Exit(0)
    /\ UNCHANGED <<args, out, err, range_vars, split_vars, subnets, orig>>

\* the program is run again on one of the subnets a narrowing run listed,
\* with that run's prefix as the second netmask
RunAgain ==
    /\ pc = "exit"
    /\ subnets # <<>>
    /\ orig = None
    /\ \E i \in 1..Len(subnets) :
          args' = [mode |-> "net",
                   address |-> subnets[i].network_address,
                   prefixlen |-> subnets[i].prefixlen,
                   netmask2 |-> <<initial_network.prefixlen>>]
    /\ orig' = initial_network
    /\ pc' = "main"
    /\ out' = <<>>
    /\ err' = <<>>
    /\ exit_code' = -1
    /\ subnets' = <<>>
    /\ UNCHANGED <<range_vars, split_vars>>

Next ==
    \/ Deaggregate
    \/ SummarizeStep
    \/ ComputeBlocks
    \/ CheckCapacity
    \/ Allocate
    \/ PrintSubnets
    \/ PrintClass
    \/ PrintNetwork
    \/ InvalidSecondNetmask
    \/ SubnetTransition
    \/ SupernetTransition
    \/ NoTransition
    \/ RunAgain

Spec == Init /\ [][Next]_vars

(***************************************************************************)
(* Properties.                                                             *)
(***************************************************************************)
Range(f) == {f[i] : i \in DOMAIN f}

\* the smallest power of two that holds h hosts, a network and a broadcast
\* address
BlockFor(h) ==
    CHOOSE b \in {2^k : k \in 0..30} :
        b >= h + 2 /\ \A c \in {2^k : k \in 0..30} : c >= h + 2 => b <= c

\* the addresses of network n all lie in network m
Inside(n, m) ==
    /\ ~Less(n.network_address.packed, m.network_address.packed)
    /\ ~Less(broadcast_address(m).packed, broadcast_address(n).packed)

\* networks n and m share no address
Disjoint(n, m) ==
    \/ Less(broadcast_address(n).packed, m.network_address.packed)
    \/ Less(broadcast_address(m).packed, n.network_address.packed)

\* network m starts right behind the last address of network n
Follows(m, n) ==
    /\ Less(broadcast_address(n).packed, m.network_address.packed)
    /\ SubOne(m.network_address.packed) = broadcast_address(n).packed

SplitRun == args.mode = "split"

Requirements == 1..Len(args.split)

\* the requirements whose block has been placed
Allocated == {i \in 1..Len(allocated_subnets) : allocated_subnets[i] # None}

\* the blocks printed by split mode, in the order printed
PrintedBlocks == SelectSeq(out, LAMBDA e : e.text = "Requested size")

AllPositive == \A i \in Requirements : args.split[i] > 0

RECURSIVE SumOver(_, _)
SumOver(f, S) ==
    IF S = {} THEN 0 ELSE LET x == CHOOSE y \in S : TRUE IN f[x] + SumOver(f, S \ {x})

RequiredBlocks == [i \in Requirements |-> BlockFor(args.split[i])]

RequiredTotal == SumOver(RequiredBlocks, Requirements)

Capacity == num_addresses(initial_network)

Fits == ~Less(Capacity, ToBytes(RequiredTotal, Len(Capacity)))

\* C1: in split mode every block placed so far, and every block printed, lies
\* inside the parent, holds a power-of-two number of addresses that is at
\* least the requested hosts + 2, starts at a multiple of its own size, and
\* shares no address with any other block.
C1_BlocksDisjointAlignedInside ==
    SplitRun =>
        /\ \A i \in Allocated :
              LET n == allocated_subnets[i]
                  b == needed_blocks[CHOOSE j \in 1..Len(needed_blocks) :
                                         needed_blocks[j].original_index = i]
              IN  /\ Inside(n, initial_network)
                  /\ \E k \in 0..30 : b.block_size = 2^k /\ n.prefixlen = 32 - k
                  /\ b.block_size >= args.split[i] + 2
                  /\ num_addresses(n) = ToBytes(b.block_size, 5)
                  /\ ~has_host_bits(n.network_address.packed, n.prefixlen)
                  /\ \A j \in Allocated \ {i} : Disjoint(n, allocated_subnets[j])
        /\ \A e \in Range(PrintedBlocks) :
              /\ e.index \in Allocated
              /\ e.info.network = allocated_subnets[e.index]
              /\ e.block = num_addresses(allocated_subnets[e.index])

\* a fitting list of three requests was placed in three blocks of three sizes
C1_Witness ==
    /\ SplitRun /\ pc = "exit" /\ exit_code = 0
    /\ Len(PrintedBlocks) = 3
    /\ Cardinality({PrintedBlocks[i].info.network.prefixlen : i \in 1..3}) = 3
    /\ AllPositive

\* the requirements placed before requirement i: larger blocks first, equal
\* blocks in the caller's order
Before(i) ==
    {j \in Requirements :
        \/ RequiredBlocks[j] > RequiredBlocks[i]
        \/ RequiredBlocks[j] = RequiredBlocks[i] /\ j < i}

\* C2: a split run on valid requirements that fit the parent prints exactly
\* one block per requirement in the caller's order, the block of requirement i
\* starting at the parent's base plus the sizes of the blocks placed before it
\* and having prefix 32 - log2(blockSize).
C2_PlacementOrder ==
    (SplitRun /\ pc = "exit" /\ AllPositive /\ Fits) =>
        /\ Len(PrintedBlocks) = Len(args.split)
        /\ \A i \in Requirements :
              LET n == PrintedBlocks[i].info.network
              IN  /\ PrintedBlocks[i].index = i
                  /\ PrintedBlocks[i].size = args.split[i]
                  /\ Sub(n.network_address.packed, initial_network.network_address.packed)
                        = ToBytes(SumOver(RequiredBlocks, Before(i)), 4)
                  /\ 2^(32 - n.prefixlen) = RequiredBlocks[i]

\* C3: when the required blocks exceed the parent's address count the run
\* reports the requested total and the capacity, prints no block, and ends
\* with a failure status.
C3_CapacityExceeded ==
    (SplitRun /\ pc = "exit" /\ AllPositive /\ ~Fits) =>
        /\ \E e \in Range(err) :
              /\ e.msg = "Error: The requested subnet sizes exceed the capacity"
              /\ e.total_needed = RequiredTotal
              /\ e.num_addresses = Capacity
        /\ PrintedBlocks = <<>>
        /\ Allocated = {}
        /\ exit_code # 0

\* C4: in a split run with a zero or negative host count no block is ever
\* allocated or printed for any requirement, in particular no /31 or /32
\* block, and the run ends with an error reported.
C4_InvalidRequirement ==
    (SplitRun /\ ~AllPositive) =>
        /\ Allocated = {}
        /\ PrintedBlocks = <<>>
        /\ \A n \in Range(allocated_subnets) : n.prefixlen \notin {31, 32}
        /\ pc = "exit" => err # <<>>

RangeRun == args.mode = "range"

SameFamily == args.start.version = args.end.version

Ordered == ~Less(args.end.packed, args.start.packed)

\* the CIDR blocks printed by range mode, in the order printed
Cidrs ==
    LET printed == SelectSeq(out, LAMBDA e : e.text = "cidr")
    IN  [i \in 1..Len(printed) |-> printed[i].network]

\* the addresses s..e are the union of at most budget disjoint CIDR blocks.
\* CIDR blocks are nested or disjoint, so a cover of s..e by CIDR blocks
\* that has n blocks contains such a partition with at most n blocks.
RECURSIVE CoverExists(_, _, _)
CoverExists(s, e, budget) ==
    /\ budget > 0
    /\ \E k \in 0..(SpanBitLength(s, e) - 1) :
          LET prefix == 8 * Len(s) - k
              b == OrHostmask(s, prefix)
          IN  /\ ~has_host_bits(s, prefix)
              /\ ~Less(e, b)
              /\ \/ b = e
                 \/ /\ Less(b, e)
                    /\ CoverExists(AddPow2(b, 0).packed, e, budget - 1)

\* C5: a range run on two addresses of one family with start <= end ends
\* successfully having printed blocks in ascending order, each aligned to its
\* size, pairwise disjoint, the first starting at start, each next one
\* starting right behind the one before, the last ending at end; and no
\* cover of the range by CIDR blocks has fewer blocks.
C5_SummaryExactMinimal ==
    (RangeRun /\ SameFamily /\ Ordered /\ pc = "exit") =>
        /\ exit_code = 0 /\ err = <<>>
        /\ Len(Cidrs) >= 1
        /\ Cidrs[1].network_address = args.start
        /\ broadcast_address(Cidrs[Len(Cidrs)]) = args.end
        /\ \A i \in 1..Len(Cidrs) :
              /\ Cidrs[i].prefixlen \in 0..max_prefixlen(args.start.version)
              /\ ~has_host_bits(Cidrs[i].network_address.packed, Cidrs[i].prefixlen)
              /\ i < Len(Cidrs) => Follows(Cidrs[i + 1], Cidrs[i])
              /\ \A j \in 1..Len(Cidrs) : i # j => Disjoint(Cidrs[i], Cidrs[j])
        /\ ~CoverExists(args.start.packed, args.end.packed, Len(Cidrs) - 1)

\* a range that is neither aligned at its start nor at its end was summarized
\* in blocks of at least three sizes
C5_Witness ==
    /\ RangeRun /\ pc = "exit" /\ exit_code = 0
    /\ Len(Cidrs) >= 4
    /\ Cardinality({Cidrs[i].prefixlen : i \in 1..Len(Cidrs)}) >= 3

\* the worked example: 10.0.0.5 - 10.0.0.18
Example ==
    /\ RangeRun /\ pc = "exit"
    /\ args.start = IPv4(10, 0, 0, 5)
    /\ args.end = IPv4(10, 0, 0, 18)

Net10(d, prefix) == [network_address |-> IPv4(10, 0, 0, d), prefixlen |-> prefix]

\* C6 as stated: the example prints 10.0.0.5/32, 10.0.0.6/31, 10.0.0.8/29,
\* 10.0.0.16/30, 10.0.0.18/32.
C6_ExampleAsStated ==
    Example =>
        Cidrs = <<Net10(5, 32), Net10(6, 31), Net10(8, 29), Net10(16, 30), Net10(18, 32)>>

\* C6 amended: the example prints 10.0.0.5/32, 10.0.0.6/31, 10.0.0.8/29,
\* 10.0.0.16/31, 10.0.0.18/32, blocks of 1 + 2 + 8 + 2 + 1 = 14 addresses
\* that run from 10.0.0.5 to 10.0.0.18 without gap or overlap.
C6_ExampleAmended ==
    Example =>
        /\ Cidrs = <<Net10(5, 32), Net10(6, 31), Net10(8, 29), Net10(16, 31), Net10(18, 32)>>
        /\ SumOver([i \in 1..Len(Cidrs) |-> 2^(32 - Cidrs[i].prefixlen)], 1..Len(Cidrs)) = 14
        /\ Cidrs[1].network_address = args.start
        /\ \A i \in 1..(Len(Cidrs) - 1) : Follows(Cidrs[i + 1], Cidrs[i])
        /\ broadcast_address(Cidrs[Len(Cidrs)]) = args.end

C6_Witness == Example /\ exit_code = 0 /\ Len(Cidrs) = 5

\* the run ended on an error that main caught and reported
Handled(message) ==
    /\ exit_code = 1
    /\ err # <<>>
    /\ \A e \in Range(err) : e.msg = message

\* C7: a range run on addresses of two families, and one with start > end,
\* each end on a handled, reported error, the two distinguishable, and print
\* no CIDR block.
C7_RangeErrors ==
    (RangeRun /\ pc = "exit") =>
        /\ ~SameFamily =>
              /\ Cidrs = <<>>
              /\ Handled("Invalid range specified")
              /\ \A e \in Range(err) :
                    e.error # "last IP address must be greater than first"
        /\ (SameFamily /\ ~Ordered) =>
              /\ Cidrs = <<>>
              /\ Handled("Invalid range specified")
              /\ \A e \in Range(err) :
                    e.error = "last IP address must be greater than first"

NetRun == args.mode = "net"

\* the print_network_info blocks on stdout, in the order printed
Infos == SelectSeq(out, LAMBDA e : e.text = "network_info")

\* C8: a narrowing transition from N/P to P' lists all 2^(P'-P) subnets of N
\* in ascending order of network address; and a run on any one of them with
\* P as second netmask prints N as the supernet.
C8_NarrowWidenRoundTrip ==
    /\ (NetRun /\ subnets # <<>>) =>
          LET N == initial_network
              P2 == args.netmask2[1]
          IN  /\ Len(subnets) = 2^(P2 - N.prefixlen)
              /\ subnets[1].network_address = N.network_address
              /\ broadcast_address(subnets[Len(subnets)]) = broadcast_address(N)
              /\ \A i \in 1..Len(subnets) :
                    /\ subnets[i].prefixlen = P2
                    /\ ~has_host_bits(subnets[i].network_address.packed, P2)
                    /\ Inside(subnets[i], N)
                    /\ i < Len(subnets) => Follows(subnets[i + 1], subnets[i])
              /\ Len(subnets) <= SubnetLimit =>
                    [i \in 1..Len(subnets) |-> Infos[i + 1].network] = subnets
    /\ (NetRun /\ orig # None /\ pc = "exit") =>
          /\ exit_code = 0
          /\ Len(Infos) = 2
          /\ Infos[1].network = [network_address |-> args.address, prefixlen |-> args.prefixlen]
          /\ Infos[2].network = orig

\* a subnet that is not the first of its parent was widened back
C8_Witness ==
    /\ NetRun /\ orig # None /\ pc = "exit"
    /\ args.address # orig.network_address
    /\ args.prefixlen >= orig.prefixlen + 2
    /\ Len(Infos) = 2

\* C9: a second netmask P' is accepted, with a result, only when it is
\* strictly narrowing (P < P' <= 32) or strictly widening (0 <= P' < P);
\* every other P' ends the run on a reported error.
C9_TransitionValidation ==
    (NetRun /\ pc = "exit" /\ args.netmask2 # <<>>) =>
        LET P == initial_network.prefixlen
            P2 == args.netmask2[1]
        IN  IF (P < P2 /\ P2 <= 32) \/ (0 <= P2 /\ P2 < P)
            THEN exit_code = 0 /\ Len(Infos) >= 2
            ELSE /\ exit_code = 1
                 /\ \E e \in Range(err) : e.msg = "Invalid second netmask"

\* every print_network_info block on stdout, those of split mode included
AllInfos ==
    Range(Infos) \cup {e.info : e \in Range(PrintedBlocks)}

Labels(info) == [i \in 1..Len(info.lines) |-> info.lines[i].label]

\* 2^k as a packed value of 5 bytes
Pow2Bytes(k) == AddPow2(ToBytes(0, 5), k).packed

\* C10: every printed IPv4 network with prefix < 31 shows the host range
\* network+1 .. broadcast-1 and hostCount = addressCount - 2 >= 0; with prefix
\* 31 the host range network .. broadcast and hostCount = 2; with prefix 32
\* no host range and hostCount = 1.
C10_HostRange ==
    \A info \in AllInfos :
        LET n == info.network
            p == n.prefixlen
            net == n.network_address
            bcast == broadcast_address(n)
        IN  /\ info.lines[1] = [label |-> "Network", addr |-> net]
            /\ p < 31 =>
                  /\ Labels(info) = <<"Network", "HostMin", "HostMax", "Broadcast">>
                  /\ SubOne(info.lines[2].addr.packed) = net.packed
                  /\ AddPow2(info.lines[3].addr.packed, 0).packed = bcast.packed
                  /\ info.lines[4].addr = bcast
                  /\ AddPow2(info.hosts_count, 1).packed = Pow2Bytes(32 - p)
                  /\ ~Less(info.hosts_count, ToBytes(0, 5))
            /\ p = 31 =>
                  /\ Labels(info) = <<"Network", "HostMin", "HostMax">>
                  /\ info.lines[2].addr = net
                  /\ info.lines[3].addr = bcast
                  /\ net # bcast
                  /\ info.hosts_count = ToBytes(2, 5)
            /\ p = 32 =>
                  /\ Labels(info) = <<"Network">>
                  /\ info.hosts_count = ToBytes(1, 5)

\* one run printed a network of each kind
C10_Witness ==
    /\ pc = "exit"
    /\ \E a, b, c \in AllInfos :
          /\ a.network.prefixlen < 31
          /\ b.network.prefixlen = 31
          /\ c.network.prefixlen = 32

ClassfulRun == args.mode = "classful"

\* the class read off the leading bits of an octet: 0xxxxxxx, 10xxxxxx,
\* 110xxxxx, 1110xxxx, or anything else
LeadingBitsClass(octet) ==
    IF octet \div 128 = 0 THEN "A"
    ELSE IF octet \div 64 = 2 THEN "B"
    ELSE IF octet \div 32 = 6 THEN "C"
    ELSE IF octet \div 16 = 14 THEN "D"
    ELSE "E"

\* the documented examples
ClassExamples ==
    { <<IPv4(10, 0, 0, 1), "A">>, <<IPv4(172, 16, 0, 1), "B">>,
      <<IPv4(192, 168, 1, 1), "C">>, <<IPv4(224, 0, 0, 1), "D">>,
      <<IPv4(240, 0, 0, 1), "E">> }

\* C11: for an IPv4 address given without a prefix, --class prints the class
\* its first octet's leading bits decide (0xxxxxxx A, 10xxxxxx B, 110xxxxx C,
\* 1110xxxx D, otherwise E), and without --class the network printed has
\* prefix 8 for class A, 16 for class B and 24 for classes C, D and E;
\* 10.0.0.1 is A, 172.16.0.1 B, 192.168.1.1 C, 224.0.0.1 D, 240.0.0.1 E.
C11_ClassfulDecoding ==
    (ClassfulRun /\ pc # "main") =>
        LET class == LeadingBitsClass(args.address.packed[1])
            prefix == IF class = "A" THEN 8 ELSE IF class = "B" THEN 16 ELSE 24
        IN  /\ args.print_class =>
                  /\ out = <<[text |-> "Class", class |-> class]>>
                  /\ \A ex \in ClassExamples : args.address = ex[1] => out[1].class = ex[2]
                  /\ pc = "exit" /\ exit_code = 0
            /\ ~args.print_class =>
                  /\ Infos[1].network.prefixlen = prefix
                  /\ Infos[1].network.network_address.packed =
                        [i \in 1..4 |-> IF 8 * i <= prefix THEN args.address.packed[i] ELSE 0]
                  /\ out[1] = [text |-> "Address", address |-> args.address,
                               network |-> Infos[1].network]

\* 172.16.0.1 given alone was printed as a /16, and a class D address as a /24
C11_Witness ==
    /\ ClassfulRun /\ pc = "exit" /\ ~args.print_class
    /\ args.address = IPv4(172, 16, 0, 1)
    /\ Infos[1].network = [network_address |-> IPv4(172, 16, 0, 0), prefixlen |-> 16]

====
